---------------------------- MODULE Spec2Model ----------------------------
(***************************************************************************)
(* SeqQueue (src/src/seqqueue/seqthreadqueue.py): a blocking queue that    *)
(* hands out (index, item) pairs in the order of their index.              *)
(*                                                                         *)
(* Every mutation of the queue happens while self.mutex is held, and a     *)
(* thread gives the mutex up only by leaving put/get or inside             *)
(* Condition.wait().  One action of the model is therefore one stretch of  *)
(* code executed with the mutex held: from acquiring it (on entry, or on   *)
(* return from wait) to releasing it (on exit, by raise, or by the next    *)
(* wait).  Between two actions the mutex is free.                          *)
(*                                                                         *)
(* threading.Condition is modelled as CPython implements it: wait()        *)
(* appends the caller to the condition's FIFO list of waiters and releases *)
(* the mutex; notify() takes the first waiter off the list and makes it    *)
(* runnable; a timed wait that expires makes the caller runnable while it  *)
(* is still on the list, and the caller takes itself off the list only     *)
(* after it has the mutex again.  There are no spurious wake-ups.          *)
(*                                                                         *)
(* An entry is represented by its index: the payload is never inspected.   *)
(* A heap is represented by the sorted sequence of its elements (heap[0]   *)
(* of the code is element 1 here).  The per-call Condition slot_empty of a *)
(* put is identified with the calling thread, which has one call at most   *)
(* in progress.                                                            *)
(***************************************************************************)
EXTENDS Integers, Sequences, FiniteSets, TLC

\* ------------------------------------------------------------- bounds
NThreads == 3        \* threads calling put/get on the queue
NItems == 3          \* indices start_index .. start_index+NItems-1 are put
MaxMaxsize == 2      \* maxsize ranges over -1..MaxMaxsize (<= 0: unbounded)
MaxStart == 1        \* start_index ranges over 0..MaxStart
MaxRefused == 2      \* failed timed puts of one index are counted up to here
RetryThreads == 2    \* threads where failed puts are counted (RetrySpec)
CrowdThreads == 4    \* threads where several consumers wait at once (CrowdSpec)
NQueues == 3         \* queues of the relay chain, source and target included
RelayPerStage == 2   \* relay threads between two neighbouring queues

None == -1           \* Python's None, where an index or a timeout is absent

VARIABLES
    maxsize,         \* [queue -> Int]   self.maxsize
    index_shift,     \* [queue -> Int]   self._index_shift (the cursor)
    queue,           \* [queue -> Seq]   self.queue, the heap of entries
    waiting_to_put,  \* [queue -> Seq]   self._waiting_to_put, heap of <<index, thread>>
    unfinished_tasks,\* [queue -> Nat]   self.unfinished_tasks
    not_empty,       \* [queue -> Seq]   self.not_empty._waiters, FIFO
    pc,              \* [thread -> "idle" | "put_wait" | "get_wait"]
    call,            \* [thread -> the call in progress or last made]
    woken,           \* [thread -> "no" | "notified" | "timeout"] while in wait()
    expired,         \* [thread -> BOOLEAN] endtime of a timed get has passed
    last,            \* the call that returned last, and how it ended
    held,            \* [relay thread -> the entry its driver holds, or None]
    start_index,     \* [queue -> Int]   constructor argument, kept for reference
    delivered,       \* [queue -> Seq]   history: indices returned by get, in order
    refused          \* [index -> Nat]   history: timed puts of the index that raised Full

vars == <<maxsize, index_shift, queue, waiting_to_put, unfinished_tasks,
          not_empty, pc, call, woken, expired, last, held, start_index,
          delivered, refused>>

Queues == DOMAIN maxsize
Procs == DOMAIN pc

Modes == {"nonblock", "block", "timed", "timed0", "negative"}
\* block=False | block=True,timeout=None | timeout>0 | timeout=0 | timeout<0

NoCall == [op |-> "none", q |-> 0, index |-> None, mode |-> "block"]

\* ------------------------------------------------------------- heapq
\* heappush(self.queue, item): entries are ordered by index
RECURSIVE heappush(_, _)
heappush(h, x) ==
    IF h = << >> THEN <<x>>
    ELSE IF x <= Head(h) THEN <<x>> \o h
    ELSE <<Head(h)>> \o heappush(Tail(h), x)

\* (mutant) the registry kept in the order of arrival
heappush_waiter_fifo(h, w) == Append(h, w)

\* heappush(self._waiting_to_put, (index, slot_empty)): ordered by index
RECURSIVE heappush_waiter(_, _)
heappush_waiter(h, w) ==
    IF h = << >> THEN <<w>>
    ELSE IF w[1] <= Head(h)[1] THEN <<w>> \o h
    ELSE <<Head(h)>> \o heappush_waiter(Tail(h), w)

\* list.pop(k) followed by heapify
RemoveAt(h, k) == SubSeq(h, 1, k - 1) \o SubSeq(h, k + 1, Len(h))

\* list.index(x): the first position holding x, 0 when absent (ValueError)
IndexOf(h, x) ==
    IF \E k \in 1..Len(h) : h[k] = x
    THEN CHOOSE k \in 1..Len(h) : h[k] = x /\ \A j \in 1..(k - 1) : h[j] # x
    ELSE 0

\* ------------------------------------------------------------- predicates
\* (mutant) a capacity window that stays at start_index instead of following
\* the cursor
slot_empty_at_fixed(q, index, c) == (index - start_index[q]) < maxsize[q]

\* (mutant) the capacity window taken one slot too wide
slot_empty_at_wide(q, index, c) == (index - c) <= maxsize[q]

\* SeqQueue._slot_empty, evaluated with cursor c
slot_empty_at(q, index, c) == (index - c) < maxsize[q]

slot_empty(q, index) == slot_empty_at(q, index, index_shift[q])

\* (mutant) readiness that ignores the cursor, as in a plain priority queue
slot_ready_at_any(h, c) == Len(h) > 0

\* (mutant) readiness one index early
slot_ready_at_early(h, c) == Len(h) > 0 /\ h[1] - c <= 1

\* SeqQueue._slot_ready, evaluated on heap h with cursor c
slot_ready_at(h, c) == Len(h) > 0 /\ h[1] - c = 0

slot_ready(q) == slot_ready_at(queue[q], index_shift[q])

\* SeqQueue._qsize
qsize(q) == Len(queue[q])

\* ------------------------------------------------------------- Condition
\* Condition.notify() on not_empty: the first waiter leaves the list and runs.
NotifiedWoken(w, waiters) ==
    IF waiters = << >> THEN w
    ELSE [w EXCEPT ![Head(waiters)] = IF @ = "no" THEN "notified" ELSE @]

NotifiedList(waiters) == IF waiters = << >> THEN waiters ELSE Tail(waiters)

\* (mutant) a notification of a waiting producer that gets lost
NotifySlot_lost(w, p) == w

\* Condition.notify() on the slot_empty of thread p: p is on that condition's
\* waiter list exactly while it is inside slot_empty.wait().
NotifySlot(w, p) ==
    IF pc[p] = "put_wait" /\ w[p] = "no" THEN [w EXCEPT ![p] = "notified"] ELSE w

\* The waiter takes itself off the list after a wait that timed out.
WithoutWaiter(waiters, t) ==
    IF IndexOf(waiters, t) = 0 THEN waiters ELSE RemoveAt(waiters, IndexOf(waiters, t))

\* ------------------------------------------------------------- calls
PutCall(q, index, mode) == [op |-> "put", q |-> q, index |-> index, mode |-> mode]
GetCall(q, mode) == [op |-> "get", q |-> q, index |-> None, mode |-> mode]

\* The call c of thread t ends: outcome is "ok" or the exception raised, got the
\* entry a get returns.  The driver of a relay thread keeps the entry (test
\* line 27) until it has put it (test line 32).
Return(t, c, outcome, got) ==
    /\ pc' = [pc EXCEPT ![t] = "idle"]
    /\ call' = [call EXCEPT ![t] = NoCall]
    /\ expired' = [expired EXCEPT ![t] = FALSE]
    /\ last' = [op |-> c.op, q |-> c.q, index |-> c.index,
                mode |-> c.mode, outcome |-> outcome, item |-> got,
                woke |-> woken[t]]
    /\ refused' = IF outcome = "Full" /\ c.mode \in {"timed", "timed0"}
                     /\ c.index \in DOMAIN refused /\ refused[c.index] < MaxRefused
                  THEN [refused EXCEPT ![c.index] = @ + 1] ELSE refused
    /\ held' = IF t \in DOMAIN held /\ outcome = "ok"
               THEN [held EXCEPT ![t] = got] ELSE held

\* ------------------------------------------------------------- put
\* (mutant) the counter of unfinished tasks is raised before the put knows
\* that it inserts
PutRaise_counted(t, c, exc, w) ==
    /\ Return(t, c, exc, None)
    /\ woken' = w
    /\ unfinished_tasks' = [unfinished_tasks EXCEPT ![c.q] = @ + 1]
    /\ UNCHANGED <<queue, not_empty, index_shift, delivered>>

\* lines 49, 55, 66: raise Full / ValueError out of put
PutRaise(t, c, exc, w) ==
    /\ Return(t, c, exc, None)
    /\ woken' = w
    /\ UNCHANGED <<queue, unfinished_tasks, not_empty, index_shift, delivered>>

\* (mutant) a put that never signals not_empty
PutSignals_never(h, c) == FALSE

\* line 70: the put signals not_empty when the queue is ready after it
PutSignals(h, c) == slot_ready_at(h, c)

\* lines 67-71: self._put(item); unfinished_tasks += 1; notify if ready
PutTail(t, c, w) ==
    LET q == c.q
        h == heappush(queue[q], c.index)
    IN
    /\ queue' = [queue EXCEPT ![q] = h]
    /\ unfinished_tasks' = [unfinished_tasks EXCEPT ![q] = @ + 1]
    /\ IF PutSignals(h, index_shift[q])
       THEN /\ woken' = NotifiedWoken(w, not_empty[q])
            /\ not_empty' = [not_empty EXCEPT ![q] = NotifiedList(@)]
       ELSE /\ woken' = w
            /\ not_empty' = not_empty
    /\ Return(t, c, "ok", None)
    /\ UNCHANGED <<waiting_to_put, index_shift, delivered>>

\* lines 52-53 and 58-59: register the condition, then wait on it.
\* wait(0) does not block: the caller is runnable at once, as after a timeout.
PutRegister(t, c) ==
    /\ waiting_to_put' = [waiting_to_put EXCEPT ![c.q] = heappush_waiter(@, <<c.index, t>>)]
    /\ pc' = [pc EXCEPT ![t] = "put_wait"]
    /\ call' = [call EXCEPT ![t] = c]
    /\ woken' = [woken EXCEPT ![t] = IF c.mode = "timed0" THEN "timeout" ELSE "no"]
    /\ UNCHANGED <<queue, unfinished_tasks, not_empty, index_shift, delivered,
                   last, held, expired, refused>>

\* (mutant) only maxsize = 0 taken as unbounded
PutEnter_nonzero(t, c) ==
    /\ UNCHANGED <<maxsize, start_index>>
    /\ IF maxsize[c.q] # 0
       THEN CASE c.mode = "nonblock" ->
                    IF ~slot_empty(c.q, c.index)
                    THEN PutRaise(t, c, "Full", woken) /\ UNCHANGED waiting_to_put
                    ELSE PutTail(t, c, woken)
              [] c.mode = "negative" ->
                    PutRaise(t, c, "ValueError", woken) /\ UNCHANGED waiting_to_put
              [] OTHER ->
                    IF ~slot_empty(c.q, c.index)
                    THEN PutRegister(t, c)
                    ELSE PutTail(t, c, woken)
       ELSE PutTail(t, c, woken)

\* lines 44-71, up to the first release of the mutex
PutEnter(t, c) ==
    /\ UNCHANGED <<maxsize, start_index>>
    /\ IF maxsize[c.q] > 0
       THEN CASE c.mode = "nonblock" ->
                    IF ~slot_empty(c.q, c.index)
                    THEN PutRaise(t, c, "Full", woken) /\ UNCHANGED waiting_to_put
                    ELSE PutTail(t, c, woken)
              [] c.mode = "block" ->
                    IF ~slot_empty(c.q, c.index)
                    THEN PutRegister(t, c)
                    ELSE PutTail(t, c, woken)
              [] c.mode = "negative" ->
                    PutRaise(t, c, "ValueError", woken) /\ UNCHANGED waiting_to_put
              [] OTHER ->
                    IF ~slot_empty(c.q, c.index)
                    THEN PutRegister(t, c)
                    ELSE PutTail(t, c, woken)
       ELSE PutTail(t, c, woken)

\* (mutant) the timed put raises Full and leaves its condition registered
PutGiveUp_keep(t, c, w) ==
    PutRaise(t, c, "Full", w) /\ UNCHANGED waiting_to_put

\* lines 60-66: the timed put finds its slot still closed after the wait,
\* takes its condition out of the waiters and raises Full
PutGiveUp(t, c, w) ==
    LET k == IndexOf(waiting_to_put[c.q], <<c.index, t>>) IN
    IF k = 0
    THEN PutRaise(t, c, "ValueError", w) /\ UNCHANGED waiting_to_put
    ELSE /\ waiting_to_put' = [waiting_to_put EXCEPT ![c.q] = RemoveAt(@, k)]
         /\ PutRaise(t, c, "Full", w)

\* (mutant) a timed put whose wait ran out gives up without testing its slot
\* again
PutResume_norecheck(t) ==
    LET c == call[t]
        w == [woken EXCEPT ![t] = "no"]
    IN
    /\ pc[t] = "put_wait"
    /\ woken[t] # "no"
    /\ UNCHANGED <<maxsize, start_index>>
    /\ IF c.mode = "block" \/ woken[t] = "notified"
       THEN PutTail(t, c, w)
       ELSE IF IndexOf(waiting_to_put[c.q], <<c.index, t>>) = 0
       THEN PutRaise(t, c, "Full", w) /\ UNCHANGED waiting_to_put
       ELSE PutGiveUp(t, c, w)

\* (mutant) a timed put that inserts after its wait without testing its slot
\* again, as the put without timeout does
PutResume_blind(t) ==
    /\ pc[t] = "put_wait"
    /\ woken[t] # "no"
    /\ UNCHANGED <<maxsize, start_index>>
    /\ PutTail(t, call[t], [woken EXCEPT ![t] = "no"])

\* lines 53 and 59-71: the put has the mutex again after slot_empty.wait()
PutResume(t) ==
    LET c == call[t]
        w == [woken EXCEPT ![t] = "no"]
    IN
    /\ pc[t] = "put_wait"
    /\ woken[t] # "no"
    /\ UNCHANGED <<maxsize, start_index>>
    /\ IF c.mode = "block" \/ slot_empty(c.q, c.index)
       THEN PutTail(t, c, w)
       ELSE PutGiveUp(t, c, w)

\* ------------------------------------------------------------- get
\* (mutant) the first waiting producer tested against the cursor as it was
\* before this get
WakesProducer_old(q, reg, cur) == Len(reg) > 0 /\ slot_empty_at(q, reg[1][1], cur - 1)

\* (mutant) the first waiting producer woken after every get, as Queue.get
\* does with not_full
WakesProducer_any(q, reg, cur) == Len(reg) > 0

\* lines 103-105: the first waiting producer fits the window of the new cursor
WakesProducer(q, reg, cur) == Len(reg) > 0 /\ slot_empty_at(q, reg[1][1], cur)

\* (mutant) a get that never passes the signal on to the next consumer
GetSignals_never(h, cur) == FALSE

\* line 107: the queue is still ready after this get
GetSignals(h, cur) == slot_ready_at(h, cur)

\* (mutant) the get passes the signal on with notify_all(): every waiter of
\* not_empty runs
GetTail_broadcast(t, c, w, waiters) ==
    LET q == c.q
        cur == index_shift[q] + 1
        h == Tail(queue[q])
        reg == waiting_to_put[q]
    IN
    /\ queue' = [queue EXCEPT ![q] = h]
    /\ index_shift' = [index_shift EXCEPT ![q] = cur]
    /\ delivered' = [delivered EXCEPT ![q] = Append(@, Head(queue[q]))]
    /\ IF WakesProducer(q, reg, cur)
       THEN /\ waiting_to_put' = [waiting_to_put EXCEPT ![q] = Tail(reg)]
            /\ woken' = NotifySlot(w, reg[1][2])
            /\ not_empty' = [not_empty EXCEPT ![q] = waiters]
       ELSE IF GetSignals(h, cur)
       THEN /\ woken' = [u \in DOMAIN w |->
                            IF (\E k \in 1..Len(waiters) : waiters[k] = u) /\ w[u] = "no"
                            THEN "notified" ELSE w[u]]
            /\ not_empty' = [not_empty EXCEPT ![q] = << >>]
            /\ UNCHANGED waiting_to_put
       ELSE /\ woken' = w
            /\ not_empty' = [not_empty EXCEPT ![q] = waiters]
            /\ UNCHANGED waiting_to_put
    /\ Return(t, c, "ok", Head(queue[q]))
    /\ UNCHANGED unfinished_tasks

\* (mutant) the get notifies the first waiting producer and leaves its
\* registration in the registry
GetTail_keep(t, c, w, waiters) ==
    LET q == c.q
        cur == index_shift[q] + 1
        h == Tail(queue[q])
        reg == waiting_to_put[q]
    IN
    /\ queue' = [queue EXCEPT ![q] = h]
    /\ index_shift' = [index_shift EXCEPT ![q] = cur]
    /\ delivered' = [delivered EXCEPT ![q] = Append(@, Head(queue[q]))]
    /\ IF WakesProducer(q, reg, cur)
       THEN /\ woken' = NotifySlot(w, reg[1][2])
            /\ not_empty' = [not_empty EXCEPT ![q] = waiters]
       ELSE IF GetSignals(h, cur)
       THEN /\ woken' = NotifiedWoken(w, waiters)
            /\ not_empty' = [not_empty EXCEPT ![q] = NotifiedList(waiters)]
       ELSE /\ woken' = w
            /\ not_empty' = [not_empty EXCEPT ![q] = waiters]
    /\ Return(t, c, "ok", Head(queue[q]))
    /\ UNCHANGED <<unfinished_tasks, waiting_to_put>>

\* lines 100-110: item = self._get(), then wake one producer or one consumer
GetTail(t, c, w, waiters) ==
    LET q == c.q
        cur == index_shift[q] + 1
        h == Tail(queue[q])
        reg == waiting_to_put[q]
    IN
    /\ queue' = [queue EXCEPT ![q] = h]
    /\ index_shift' = [index_shift EXCEPT ![q] = cur]
    /\ delivered' = [delivered EXCEPT ![q] = Append(@, Head(queue[q]))]
    /\ IF WakesProducer(q, reg, cur)
       THEN /\ waiting_to_put' = [waiting_to_put EXCEPT ![q] = Tail(reg)]
            /\ woken' = NotifySlot(w, reg[1][2])
            /\ not_empty' = [not_empty EXCEPT ![q] = waiters]
       ELSE IF GetSignals(h, cur)
       THEN /\ woken' = NotifiedWoken(w, waiters)
            /\ not_empty' = [not_empty EXCEPT ![q] = NotifiedList(waiters)]
            /\ UNCHANGED waiting_to_put
       ELSE /\ woken' = w
            /\ not_empty' = [not_empty EXCEPT ![q] = waiters]
            /\ UNCHANGED waiting_to_put
    /\ Return(t, c, "ok", Head(queue[q]))
    /\ UNCHANGED unfinished_tasks

\* lines 90 and 99: self.not_empty.wait()
GetWait(t, c, isExpired, w, waiters) ==
    /\ not_empty' = [not_empty EXCEPT ![c.q] = Append(waiters, t)]
    /\ woken' = w
    /\ pc' = [pc EXCEPT ![t] = "get_wait"]
    /\ call' = [call EXCEPT ![t] = c]
    /\ expired' = [expired EXCEPT ![t] = isExpired]
    /\ UNCHANGED <<queue, index_shift, delivered, waiting_to_put, unfinished_tasks,
                   last, held, refused>>

\* (mutant) the cursor moved on before the get knows that it returns an entry
GetRaise_advanced(t, c, exc, w, waiters) ==
    /\ Return(t, c, exc, None)
    /\ woken' = w
    /\ not_empty' = [not_empty EXCEPT ![c.q] = waiters]
    /\ index_shift' = [index_shift EXCEPT ![c.q] = @ + 1]
    /\ UNCHANGED <<queue, delivered, waiting_to_put, unfinished_tasks>>

\* lines 87, 92, 98: raise Empty / ValueError out of get
GetRaise(t, c, exc, w, waiters) ==
    /\ Return(t, c, exc, None)
    /\ woken' = w
    /\ not_empty' = [not_empty EXCEPT ![c.q] = waiters]
    /\ UNCHANGED <<queue, index_shift, delivered, waiting_to_put, unfinished_tasks>>

\* lines 85-99: one pass over the mode's test of _slot_ready
GetCheck(t, c, isExpired, w, waiters) ==
    CASE c.mode = "nonblock" ->
            IF ~slot_ready(c.q) THEN GetRaise(t, c, "Empty", w, waiters)
            ELSE GetTail(t, c, w, waiters)
      [] c.mode = "block" ->
            IF ~slot_ready(c.q) THEN GetWait(t, c, isExpired, w, waiters)
            ELSE GetTail(t, c, w, waiters)
      [] c.mode = "negative" -> GetRaise(t, c, "ValueError", w, waiters)
      [] OTHER ->
            IF ~slot_ready(c.q)
            THEN IF isExpired THEN GetRaise(t, c, "Empty", w, waiters)
                 ELSE GetWait(t, c, isExpired, w, waiters)
            ELSE GetTail(t, c, w, waiters)

\* lines 84-110, up to the first release of the mutex.  With timeout=0 the
\* endtime has passed when remaining is computed.
GetEnter(t, c) ==
    /\ UNCHANGED <<maxsize, start_index>>
    /\ GetCheck(t, c, c.mode = "timed0", woken, not_empty[c.q])

\* lines 89-110: the get has the mutex again after not_empty.wait()
GetResume(t) ==
    /\ pc[t] = "get_wait"
    /\ woken[t] # "no"
    /\ UNCHANGED <<maxsize, start_index>>
    /\ GetCheck(t, call[t], expired[t],
                [woken EXCEPT ![t] = "no"], WithoutWaiter(not_empty[call[t].q], t))

\* ------------------------------------------------------------- time
\* slot_empty.wait(timeout) of a timed put runs out
PutTimeout(t) ==
    /\ pc[t] = "put_wait"
    /\ call[t].mode = "timed"
    /\ woken[t] = "no"
    /\ woken' = [woken EXCEPT ![t] = "timeout"]
    /\ UNCHANGED <<maxsize, index_shift, queue, waiting_to_put, unfinished_tasks,
                   not_empty, pc, call, expired, last, held, start_index, delivered,
                   refused>>

\* endtime of a timed get passes: a wait in progress runs out
GetTimeout(t) ==
    /\ pc[t] = "get_wait"
    /\ call[t].mode = "timed"
    /\ ~expired[t]
    /\ expired' = [expired EXCEPT ![t] = TRUE]
    /\ woken' = [woken EXCEPT ![t] = IF @ = "no" THEN "timeout" ELSE @]
    /\ UNCHANGED <<maxsize, index_shift, queue, waiting_to_put, unfinished_tasks,
                   not_empty, pc, call, last, held, start_index, delivered, refused>>

\* ------------------------------------------------------------- callers
\* The indices the callers put into queue q, each at most once.
Indices(q) == start_index[q] .. (start_index[q] + NItems - 1)

Stored(q) == {queue[q][k] : k \in 1..Len(queue[q])}
Delivered(q) == {delivered[q][k] : k \in 1..Len(delivered[q])}
InFlight(q) == {call[u].index : u \in {v \in Procs : pc[v] = "put_wait" /\ call[v].q = q}}

Fresh(q) == Indices(q) \ (Stored(q) \cup Delivered(q) \cup InFlight(q))

\* Thread t calls put with a fresh index and one of the modes.
PutWith(t, modes) ==
    /\ pc[t] = "idle"
    /\ \E q \in Queues : \E index \in Fresh(q) : \E mode \in modes :
           PutEnter(t, PutCall(q, index, mode))

\* Thread t calls get with one of the modes.
GetWith(t, modes) ==
    /\ pc[t] = "idle"
    /\ \E q \in Queues : \E mode \in modes : GetEnter(t, GetCall(q, mode))

Put(t) == PutWith(t, Modes)
Get(t) == GetWith(t, Modes)

\* SeqQueue.__init__ (lines 23-26) and Queue.__init__
InitQueue(qs, m, s) ==
    /\ maxsize = [q \in qs |-> m[q]]
    /\ start_index = [q \in qs |-> s[q]]
    /\ index_shift = [q \in qs |-> s[q]]
    /\ waiting_to_put = [q \in qs |-> << >>]
    /\ queue = [q \in qs |-> << >>]
    /\ unfinished_tasks = [q \in qs |-> 0]
    /\ not_empty = [q \in qs |-> << >>]
    /\ delivered = [q \in qs |-> << >>]

InitThreads(ts) ==
    /\ pc = [t \in ts |-> "idle"]
    /\ call = [t \in ts |-> NoCall]
    /\ woken = [t \in ts |-> "no"]
    /\ expired = [t \in ts |-> FALSE]
    /\ last = [op |-> "none", q |-> 0, index |-> None,
               mode |-> "block", outcome |-> "none", item |-> None, woke |-> "no"]

Init ==
    /\ \E m \in (-1)..MaxMaxsize : \E s \in 0..MaxStart :
           InitQueue({1}, [q \in {1} |-> m], [q \in {1} |-> s])
    /\ InitThreads(1..NThreads)
    /\ held = << >>
    /\ refused = << >>

PutStep == \E t \in Procs : Put(t)
GetStep == \E t \in Procs : Get(t)
PutResumeStep == \E t \in Procs : PutResume(t)
GetResumeStep == \E t \in Procs : GetResume(t)
PutTimeoutStep == \E t \in Procs : PutTimeout(t)
GetTimeoutStep == \E t \in Procs : GetTimeout(t)

Next ==
    \/ PutStep
    \/ GetStep
    \/ PutResumeStep
    \/ GetResumeStep
    \/ PutTimeoutStep
    \/ GetTimeoutStep

Spec == Init /\ [][Next]_vars

\* Callers that block: every call is made with block=True, with a timeout or
\* without.  (A call with block=False or timeout <= 0 changes the queue as one
\* of these calls does, or not at all.)
WaitModes == {"block", "timed"}

WaitingPutStep == \E t \in Procs : PutWith(t, WaitModes)
WaitingGetStep == \E t \in Procs : GetWith(t, WaitModes)

FairNext ==
    \/ WaitingPutStep
    \/ WaitingGetStep
    \/ PutResumeStep
    \/ GetResumeStep
    \/ PutTimeoutStep
    \/ GetTimeoutStep

FairInit ==
    /\ \E m \in 0..MaxMaxsize :
           InitQueue({1}, [q \in {1} |-> m], [q \in {1} |-> MaxStart])
    /\ InitThreads(1..NThreads)
    /\ held = << >>
    /\ refused = << >>

\* Scheduling: a thread that was notified, or whose wait ran out, gets the
\* mutex eventually and runs on.  Nothing obliges a caller to make a new call,
\* and no timeout is obliged to run out.
Fairness ==
    \A t \in 1..NThreads : WF_vars(PutResume(t)) /\ WF_vars(GetResume(t))

FairSpec == FairInit /\ [][FairNext]_vars /\ Fairness

\* The same callers on a bounded queue, with the timed puts that raised Full
\* counted per index.
RetryInit ==
    /\ \E m \in 1..MaxMaxsize : \E s \in 0..MaxStart :
           InitQueue({1}, [q \in {1} |-> m], [q \in {1} |-> s])
    /\ InitThreads(1..RetryThreads)
    /\ held = << >>
    /\ refused = [i \in 0..(MaxStart + NItems - 1) |-> 0]

RetrySpec == RetryInit /\ [][Next]_vars

\* More threads than entries, so that several consumers are suspended when a
\* get signals: puts with block=False, or block=True with timeout None or > 0,
\* gets with block=False or block=True without timeout.
CrowdPutStep == \E t \in Procs : PutWith(t, {"nonblock", "block", "timed"})
CrowdGetStep == \E t \in Procs : GetWith(t, {"nonblock", "block"})

CrowdNext ==
    \/ CrowdPutStep
    \/ CrowdGetStep
    \/ PutResumeStep
    \/ GetResumeStep
    \/ PutTimeoutStep

CrowdInit ==
    /\ \E m \in 0..MaxMaxsize : \E s \in 0..MaxStart :
           InitQueue({1}, [q \in {1} |-> m], [q \in {1} |-> s])
    /\ InitThreads(1..CrowdThreads)
    /\ held = << >>
    /\ refused = << >>

CrowdSpec == CrowdInit /\ [][CrowdNext]_vars

\* ------------------------------------------------------------- relay chain
\* tests/test_seqqueue.py, test_random_maxsize: queue 1 is the source, filled
\* before the threads start, queue NQueues the target; RelayPerStage threads
\* run _put_to_next_q between queue s and queue s+1, and one more thread takes
\* the entries out of the target.
RelayThreads == 1..((NQueues - 1) * RelayPerStage)
Drainer == (NQueues - 1) * RelayPerStage + 1
Stage(t) == ((t - 1) \div RelayPerStage) + 1

\* test line 91: the entries in the order of their indices
AllItems == [k \in 1..NItems |-> k - 1]

\* test line 27: item = src_q.get()
RelayGet(t) ==
    /\ t \in DOMAIN held
    /\ pc[t] = "idle"
    /\ held[t] = None
    /\ GetEnter(t, GetCall(Stage(t), "block"))

\* test line 32: target_q.put(item)
RelayPut(t) ==
    /\ t \in DOMAIN held
    /\ pc[t] = "idle"
    /\ held[t] # None
    /\ PutEnter(t, PutCall(Stage(t) + 1, held[t], "block"))

\* test line 119: qs[-1].get()
Drain(t) ==
    /\ t = Drainer
    /\ pc[t] = "idle"
    /\ Len(delivered[NQueues]) < NItems
    /\ GetEnter(t, GetCall(NQueues, "block"))

\* test lines 91-100: the queues are made and the source is filled
RelayInit ==
    /\ \E m \in [2..NQueues -> 0..MaxMaxsize] :
           /\ maxsize = [q \in 1..NQueues |-> IF q = 1 THEN 0 ELSE m[q]]
    /\ start_index = [q \in 1..NQueues |-> 0]
    /\ index_shift = [q \in 1..NQueues |-> 0]
    /\ waiting_to_put = [q \in 1..NQueues |-> << >>]
    /\ queue = [q \in 1..NQueues |-> IF q = 1 THEN AllItems ELSE << >>]
    /\ unfinished_tasks = [q \in 1..NQueues |-> IF q = 1 THEN NItems ELSE 0]
    /\ not_empty = [q \in 1..NQueues |-> << >>]
    /\ delivered = [q \in 1..NQueues |-> << >>]
    /\ InitThreads(RelayThreads \cup {Drainer})
    /\ held = [t \in RelayThreads |-> None]
    /\ refused = << >>

RelayGetStep == \E t \in Procs : RelayGet(t)
RelayPutStep == \E t \in Procs : RelayPut(t)
DrainStep == \E t \in Procs : Drain(t)

RelayNext ==
    \/ RelayGetStep
    \/ RelayPutStep
    \/ DrainStep
    \/ PutResumeStep
    \/ GetResumeStep

\* Every thread of the chain keeps running.
RelayFairness ==
    \A t \in RelayThreads \cup {Drainer} :
        /\ WF_vars(RelayGet(t)) /\ WF_vars(RelayPut(t)) /\ WF_vars(Drain(t))
        /\ WF_vars(PutResume(t)) /\ WF_vars(GetResume(t))

RelaySpec == RelayInit /\ [][RelayNext]_vars /\ RelayFairness

\* ------------------------------------------------------------- properties
\* C1 (order): the k-th entry returned by get, in the order the gets complete,
\* has index start_index + k - 1: nothing is delivered out of order, skipped
\* or delivered twice.
C1_Order ==
    \A q \in Queues : \A k \in 1..Len(delivered[q]) :
        delivered[q][k] = start_index[q] + k - 1

\* All entries were delivered, the last one to a consumer that had been waiting,
\* through a bounded queue.
C1_Witness ==
    /\ Len(delivered[1]) = NItems
    /\ maxsize[1] > 0
    /\ last.op = "get" /\ last.outcome = "ok" /\ last.woke = "notified"

\* C2 (backpressure): with maxsize = m > 0 every stored entry has
\* index < cursor + m, whatever the mode of the put that inserted it.
C2_Backpressure ==
    \A q \in Queues :
        maxsize[q] > 0 =>
            \A k \in 1..Len(queue[q]) : queue[q][k] < index_shift[q] + maxsize[q]

\* A blocking put that had to wait has inserted an index that was outside the
\* window of the empty queue.
C2_Witness ==
    /\ maxsize[1] > 0
    /\ last.op = "put" /\ last.mode = "block" /\ last.outcome = "ok"
    /\ last.woke = "notified"
    /\ last.index >= start_index[1] + maxsize[1]
    /\ last.index \in Stored(1)

\* C3 (no lost consumer wake-up): whenever the entry at the cursor is stored
\* while a consumer is suspended in a blocking get, some get eventually returns
\* that entry.
C3_NoLostWakeup ==
    \A i \in 0..(MaxStart + NItems - 1) :
        (/\ slot_ready(1) /\ queue[1][1] = i
         /\ \E t \in Procs : pc[t] = "get_wait" /\ call[t].mode = "block")
        ~> (i \in Delivered(1))

\* A consumer that was suspended in a blocking get has returned the entry,
\* woken by the get before it.
C3_Witness ==
    /\ last.op = "get" /\ last.mode = "block" /\ last.outcome = "ok"
    /\ last.woke = "notified"
    /\ Len(delivered[1]) >= 2

\* The stored entries cursor, cursor+1, ..., i are all there.
RunUpTo(q, i) ==
    /\ i >= index_shift[q]
    /\ \A j \in index_shift[q]..i : j \in Stored(q)

\* The consumers inside a blocking get that has not returned.
BlockedGetters(q) ==
    {t \in Procs : pc[t] = "get_wait" /\ call[t] = GetCall(q, "block")}

\* C4 (cascading delivery): when the entries cursor..i are stored and at least
\* i - cursor + 1 consumers are suspended in a blocking get, all of cursor..i
\* are eventually delivered (in index order, by C1), although the put and
\* each get signal the shared condition once at most.
C4_Cascade ==
    \A i \in 0..(MaxStart + NItems - 1) :
        (/\ RunUpTo(1, i)
         /\ Cardinality(BlockedGetters(1)) >= i - index_shift[1] + 1)
        ~> (i \in Delivered(1))

\* Two consumers are suspended in a blocking get on a queue that held only the
\* entry after the cursor; a put has just inserted the cursor entry and
\* signalled one of them.
C4_Witness ==
    /\ last.op = "put" /\ last.outcome = "ok" /\ last.index = index_shift[1]
    /\ queue[1] = <<index_shift[1], index_shift[1] + 1>>
    /\ Cardinality(BlockedGetters(1)) >= 2
    /\ Cardinality({t \in BlockedGetters(1) : woken[t] = "notified"}) = 1
    /\ delivered[1] = << >>

\* The producers inside a blocking put (timeout=None) that has not returned.
BlockedPutters(q) ==
    {t \in Procs : pc[t] = "put_wait" /\ call[t].q = q /\ call[t].mode = "block"}

\* C5 (no lost producer wake-up): with maxsize > 0 a producer suspended in a
\* blocking put has been notified exactly if its index is inside the window
\* (it stays suspended while index - cursor >= maxsize, and it is never left
\* without a notification once the index fits), and once the index fits the
\* producer eventually inserts its entry.
C5_ProducerWakeup ==
    /\ [](\A t \in BlockedPutters(1) :
            (woken[t] = "notified") <=> (call[t].index - index_shift[1] < maxsize[1]))
    /\ \A i \in 0..(MaxStart + NItems - 1) :
          (\E t \in BlockedPutters(1) :
               call[t].index = i /\ i - index_shift[1] < maxsize[1])
          ~> (i \in Stored(1) \cup Delivered(1))

\* A blocking put that was suspended has inserted an index that did not fit
\* the window of the empty queue.
C5_Witness ==
    /\ last.op = "put" /\ last.mode = "block" /\ last.outcome = "ok"
    /\ last.woke = "notified"
    /\ last.index - start_index[1] >= maxsize[1]
    /\ last.index - index_shift[1] < maxsize[1]
    /\ index_shift[1] > start_index[1]

\* C6 (relay chain): whatever the maxsize of the queues after the source, the
\* chain never comes to a halt before every entry has left the target, every
\* entry reaches the target, and the gets from the target return the entries
\* in the order of the source, none lost and none twice.
C6_RelayChain ==
    /\ [](\/ delivered[NQueues] = AllItems
          \/ \E t \in Procs : pc[t] = "idle" \/ woken[t] # "no")
    /\ [](\A k \in 1..Len(delivered[NQueues]) : delivered[NQueues][k] = AllItems[k])
    /\ \A i \in 0..(NItems - 1) :
          <>(i \in Stored(NQueues) \cup Delivered(NQueues))
    /\ <>[](delivered[NQueues] = AllItems)

\* Every entry has come out of the target in order, through a middle queue of
\* maxsize 1 in which a relay thread had to wait.
C6_Witness ==
    /\ delivered[NQueues] = AllItems
    /\ maxsize[2] = 1
    /\ \A q \in Queues : queue[q] = << >>
    /\ last.op = "get" /\ last.q = NQueues /\ last.woke = "notified"

\* C7 (timeout/notify race): a timed put that returns from its wait raises
\* Full only if its index is outside the window when it has the mutex again;
\* if a get has taken its registration out of the registry, it inserts its
\* entry, also when its wait had run out before.
C7_TimeoutRace ==
    [][\A t \in Procs :
        LET q == call[t].q
            i == call[t].index
        IN
        (pc[t] = "put_wait" /\ call[t].mode \in {"timed", "timed0"} /\ pc'[t] = "idle") =>
            /\ last'.outcome = "Full" => i - index_shift[q] >= maxsize[q]
            /\ IndexOf(waiting_to_put[q], <<i, t>>) = 0 =>
                   /\ last'.outcome = "ok"
                   /\ \E k \in 1..Len(queue'[q]) : queue'[q][k] = i
      ]_vars

\* A timed put whose wait ran out has inserted its entry all the same.
C7_Witness ==
    /\ last.op = "put" /\ last.mode = "timed" /\ last.outcome = "ok"
    /\ last.woke = "timeout"
    /\ last.index \in Stored(1)

\* C8 (registry cleanup): every registration in the waiting-producers registry
\* belongs to a producer that is suspended in put for that index; a timed put
\* that has raised Full has left none behind.
C8_RegistryCleanup ==
    \A q \in Queues : \A k \in 1..Len(waiting_to_put[q]) :
        LET i == waiting_to_put[q][k][1]
            t == waiting_to_put[q][k][2]
        IN
        /\ pc[t] = "put_wait"
        /\ call[t] = PutCall(q, i, call[t].mode)
        /\ \A j \in 1..Len(waiting_to_put[q]) : waiting_to_put[q][j][2] = t => j = k

\* A timed put has raised Full after its wait while another producer stays
\* registered.
C8_Witness ==
    /\ last.op = "put" /\ last.mode = "timed" /\ last.outcome = "Full"
    /\ last.woke = "timeout"
    /\ Len(waiting_to_put[1]) > 0
    /\ \A k \in 1..Len(waiting_to_put[1]) : waiting_to_put[1][k][1] # last.index

\* C9 (retry after timeout): once timed puts of index i have raised Full, a
\* put of i (block=False, or block=True with timeout None or >= 0) made when
\* i - cursor < maxsize inserts the entry at once, and the entry is delivered
\* exactly once, when the cursor passes i.
C9_Retry ==
    /\ [][\A t \in Procs : \A i \in DOMAIN refused : \A m \in Modes \ {"negative"} :
            (/\ pc[t] = "idle"
             /\ refused[i] > 0
             /\ i \in Fresh(1)
             /\ i - index_shift[1] < maxsize[1]
             /\ PutEnter(t, PutCall(1, i, m))) =>
                /\ last'.outcome = "ok" /\ last'.index = i
                /\ \E k \in 1..Len(queue'[1]) : queue'[1][k] = i
       ]_vars
    /\ [](\A i \in DOMAIN refused :
            /\ Cardinality({k \in 1..Len(delivered[1]) : delivered[1][k] = i}) <= 1
            /\ (refused[i] > 0 /\ index_shift[1] > i) => i \in Delivered(1))

\* An index whose timed put raised Full twice has been put and delivered.
C9_Witness ==
    \E i \in DOMAIN refused :
        /\ refused[i] >= 2
        /\ i \in Delivered(1)
        /\ last.op = "get" /\ last.outcome = "ok" /\ last.item = i

\* C10 (non-blocking semantics): get(block=False) returns at once, raising
\* Empty exactly when storage is empty or its least index is above the cursor
\* and returning the cursor entry otherwise; put(block=False) on a bounded
\* queue returns at once without registering, raising Full exactly when
\* index - cursor >= maxsize and inserting otherwise.
C10_NonBlocking ==
    [][\A t \in Procs : \A q \in Queues :
        /\ (pc[t] = "idle" /\ GetEnter(t, GetCall(q, "nonblock"))) =>
              /\ pc'[t] = "idle"
              /\ \A k \in 1..Len(not_empty'[q]) : not_empty'[q][k] # t
              /\ IF Stored(q) = {} \/ \A i \in Stored(q) : i > index_shift[q]
                 THEN last'.outcome = "Empty" /\ queue' = queue
                      /\ index_shift' = index_shift
                 ELSE last'.outcome = "ok" /\ last'.item = index_shift[q]
                      /\ Len(queue'[q]) = Len(queue[q]) - 1
                      /\ \A k \in 1..Len(queue'[q]) : queue'[q][k] # index_shift[q]
        /\ \A i \in Fresh(q) :
              (pc[t] = "idle" /\ maxsize[q] > 0
                 /\ PutEnter(t, PutCall(q, i, "nonblock"))) =>
                    /\ pc'[t] = "idle"
                    /\ waiting_to_put' = waiting_to_put
                    /\ IF i - index_shift[q] >= maxsize[q]
                       THEN last'.outcome = "Full" /\ queue' = queue
                       ELSE /\ last'.outcome = "ok"
                            /\ \E k \in 1..Len(queue'[q]) : queue'[q][k] = i
      ]_vars

\* A get(block=False) has raised Empty on a queue that holds entries, none of
\* them at the cursor.
C10_Witness ==
    /\ last.op = "get" /\ last.mode = "nonblock" /\ last.outcome = "Empty"
    /\ Len(queue[1]) > 0
    /\ maxsize[1] > 0

\* Thread t has no registration in the registry of q and is not waiting on
\* not_empty of q; nothing else about the two lists differs between r, n and
\* the registry and the waiters of q.
Without(s, t) == SelectSeq(s, LAMBDA x : x # t)
WithoutReg(s, t) == SelectSeq(s, LAMBDA x : x[2] # t)

\* A wake-up is on its way to the consumers of q: a consumer has been made
\* runnable and has not run yet, or a producer has been taken out of the
\* registry and has not inserted yet (it signals not_empty when it has).
WakeupPending(q) ==
    \/ \E u \in Procs : pc[u] = "get_wait" /\ call[u].q = q /\ woken[u] # "no"
    \/ \E u \in Procs :
          /\ pc[u] = "put_wait" /\ call[u].q = q
          /\ \A k \in 1..Len(waiting_to_put[q]) : waiting_to_put[q][k][2] # u

\* While the cursor entry is stored and a consumer is suspended, a wake-up is
\* on its way.
NoWakeupLost ==
    \A q \in Queues :
        (/\ Len(queue[q]) > 0 /\ queue[q][1] = index_shift[q]
         /\ \E u \in Procs : pc[u] = "get_wait" /\ call[u].q = q)
        => WakeupPending(q)

\* C11 (failure atomicity): a put that raises Full or ValueError, at once or
\* after a wait, leaves storage, cursor and the counter of unfinished tasks as
\* they are and the registry as it is without the caller's own registration
\* (which it had added itself, changing nothing else); a get that raises Empty
\* or ValueError leaves storage, cursor and registry as they are and wakes
\* nobody; neither changes the wake-up state of another thread, and no
\* wake-up that a consumer needs goes lost with a call that fails.
C11_FailureAtomicity ==
    /\ []NoWakeupLost
    /\ [][\A t \in Procs : \A q \in Queues :
           /\ \A i \in Fresh(q) : \A m \in Modes :
                 /\ (/\ pc[t] = "idle" /\ pc'[t] = "idle"
                      /\ last'.outcome # "ok" /\ last'.op = "put"
                      /\ last'.index = i /\ last'.mode = m
                      /\ PutEnter(t, PutCall(q, i, m))) =>
                         /\ last'.outcome \in {"Full", "ValueError"}
                         /\ UNCHANGED <<queue, index_shift, unfinished_tasks,
                                        waiting_to_put, not_empty, woken, delivered>>
                 /\ (/\ pc[t] = "idle" /\ pc'[t] = "put_wait"
                      /\ PutEnter(t, PutCall(q, i, m))) =>
                         /\ UNCHANGED <<queue, index_shift, unfinished_tasks,
                                        not_empty, delivered>>
                         /\ WithoutReg(waiting_to_put'[q], t) = waiting_to_put[q]
                         /\ \A u \in Procs \ {t} : woken'[u] = woken[u]
           /\ (/\ pc[t] = "put_wait" /\ call[t].q = q /\ pc'[t] = "idle"
                /\ last'.outcome # "ok"
                /\ PutResume(t)) =>
                    /\ last'.outcome = "Full"
                    /\ UNCHANGED <<queue, index_shift, unfinished_tasks, not_empty,
                                   delivered>>
                    /\ waiting_to_put'[q] = WithoutReg(waiting_to_put[q], t)
                    /\ \A u \in Procs \ {t} : woken'[u] = woken[u]
           /\ \A m \in Modes :
                 (/\ pc'[t] = "idle" /\ last'.outcome # "ok" /\ last'.op = "get"
                  /\ \/ pc[t] = "idle" /\ GetEnter(t, GetCall(q, m))
                     \/ pc[t] = "get_wait" /\ call[t] = GetCall(q, m) /\ GetResume(t)) =>
                    /\ last'.outcome \in {"Empty", "ValueError"}
                    /\ UNCHANGED <<queue, index_shift, unfinished_tasks,
                                   waiting_to_put, delivered>>
                    /\ not_empty'[q] = Without(not_empty[q], t)
                    /\ \A u \in Procs \ {t} : woken'[u] = woken[u]
         ]_vars

\* A timed get that had been notified has raised Empty, the entry having gone
\* to another get, while a later entry is stored on a bounded queue.
C11_Witness ==
    /\ last.op = "get" /\ last.mode = "timed" /\ last.outcome = "Empty"
    /\ last.woke = "notified"
    /\ Len(queue[1]) > 0
    /\ maxsize[1] > 0

\* C12 (negative timeout on put): on every queue, bounded or not, and in
\* every state, put(entry, block=True, timeout=T) with T < 0 raises ValueError
\* and inserts nothing.
C12_NegativeTimeout ==
    [][\A t \in Procs : \A q \in Queues : \A i \in Fresh(q) :
        (pc[t] = "idle" /\ PutEnter(t, PutCall(q, i, "negative"))) =>
            /\ pc'[t] = "idle"
            /\ last'.outcome = "ValueError"
            /\ queue' = queue
      ]_vars

\* C13 (unbounded queue): with maxsize <= 0 every put, whatever its index and
\* its block/timeout arguments, returns at once having inserted its entry,
\* never raises Full and never suspends, and the registry is empty in every
\* reachable state.
C13_Unbounded ==
    /\ [](\A q \in Queues :
            maxsize[q] <= 0 =>
                /\ waiting_to_put[q] = << >>
                /\ \A t \in Procs : ~(pc[t] = "put_wait" /\ call[t].q = q))
    /\ [][\A t \in Procs : \A q \in Queues : \A i \in Fresh(q) : \A m \in Modes :
            (/\ pc[t] = "idle" /\ maxsize[q] <= 0
             /\ PutEnter(t, PutCall(q, i, m))) =>
                /\ pc'[t] = "idle"
                /\ last'.outcome = "ok" /\ last'.op = "put" /\ last'.index = i
                /\ Len(queue'[q]) = Len(queue[q]) + 1
                /\ \E k \in 1..Len(queue'[q]) : queue'[q][k] = i
                /\ waiting_to_put' = waiting_to_put
       ]_vars

\* On a queue of negative maxsize that has delivered nothing, a put with a
\* timeout has inserted the last index after the others.
C13_Witness ==
    /\ maxsize[1] < 0
    /\ last.op = "put" /\ last.mode = "timed" /\ last.outcome = "ok"
    /\ last.index = start_index[1] + NItems - 1
    /\ Len(queue[1]) = NItems
    /\ index_shift[1] = start_index[1]

\* Thread t returns an entry of q from get in this step.
GetReturns(t, q) ==
    /\ pc'[t] = "idle"
    /\ last'.op = "get" /\ last'.outcome = "ok" /\ last'.q = q
    /\ \/ pc[t] = "idle" /\ \E m \in Modes : GetEnter(t, GetCall(q, m))
       \/ pc[t] = "get_wait" /\ call[t].q = q /\ GetResume(t)

\* C14 (targeted unblocking): a successful get takes one registration at
\* most out of the registry: the one of least index, and exactly if that index
\* fits the window of the incremented cursor; it notifies the producer of
\* that registration and nobody else.  If it takes none and the queue is
\* still ready, it notifies the first waiter of not_empty and no other; if
\* the queue is not ready, it notifies nobody.
C14_TargetedUnblocking ==
    [][\A t \in Procs : \A q \in Queues :
        LET reg == waiting_to_put[q]
            cur == index_shift[q] + 1
            others == Without(not_empty[q], t)
            Roused == {u \in Procs \ {t} : woken'[u] # woken[u]}
            least == CHOOSE k \in 1..Len(reg) :
                         \A j \in 1..Len(reg) : reg[k][1] <= reg[j][1]
        IN
        GetReturns(t, q) =>
            /\ Cardinality(Roused) <= 1
            /\ \A u \in Roused : woken[u] = "no" /\ woken'[u] = "notified"
            /\ Len(waiting_to_put'[q]) >= Len(reg) - 1
            /\ IF Len(reg) > 0 /\ reg[least][1] - cur < maxsize[q]
               THEN /\ waiting_to_put'[q] = SelectSeq(reg, LAMBDA x : x # reg[least])
                    /\ Len(waiting_to_put'[q]) = Len(reg) - 1
                    /\ woken'[reg[least][2]] # "no"
                    /\ Roused \subseteq {reg[least][2]}
                    /\ not_empty'[q] = others
               ELSE /\ waiting_to_put'[q] = reg
                    /\ IF Len(queue'[q]) > 0 /\ queue'[q][1] = cur /\ Len(others) > 0
                       THEN /\ not_empty'[q] = Tail(others)
                            /\ woken'[Head(others)] # "no"
                            /\ Roused \subseteq {Head(others)}
                       ELSE /\ not_empty'[q] = others
                            /\ Roused = {}
      ]_vars

\* A get has returned an entry and left the next one ready; of the consumers
\* suspended in get one has been notified, another has not, and no producer
\* is suspended.
C14_Witness ==
    /\ last.op = "get" /\ last.outcome = "ok"
    /\ \A p \in Procs : pc[p] # "put_wait"
    /\ Len(queue[1]) > 0 /\ queue[1][1] = index_shift[1]
    /\ Cardinality({u \in Procs : pc[u] = "get_wait" /\ woken[u] = "notified"}) = 1
    /\ \E u \in Procs : pc[u] = "get_wait" /\ woken[u] = "no"
    /\ Len(not_empty[1]) > 0

\* The registrations of q, as a set of <<index, thread>>.
Registered(q) == {waiting_to_put[q][k] : k \in 1..Len(waiting_to_put[q])}

\* The producers of q that a get has taken out of the registry and that have
\* not run since.
Released(q) ==
    {u \in Procs : /\ pc[u] = "put_wait" /\ call[u].q = q
                   /\ \A r \in Registered(q) : r[2] # u}

\* C15 (producer fairness by index): when a get takes the registration of a
\* suspended producer out of the registry, that producer is notified in the
\* same step and no registration of a smaller index is in the registry; and
\* no producer stays registered while one of a greater index has been
\* released.  Of two producers suspended with indices i < j the one with i is
\* therefore released first, in whatever order the two have arrived.
C15_ProducerFairness ==
    /\ [](\A q \in Queues : \A r \in Registered(q) : \A u \in Released(q) :
            call[u].index < r[1])
    /\ [][\A q \in Queues : \A r \in Registered(q) :
            (/\ \A k \in 1..Len(waiting_to_put'[q]) : waiting_to_put'[q][k] # r
             /\ pc'[r[2]] = "put_wait") =>
                /\ \A x \in Registered(q) : r[1] <= x[1]
                /\ woken'[r[2]] # "no"
                /\ last'.op = "get" /\ last'.outcome = "ok"
                /\ Len(waiting_to_put'[q]) = Len(waiting_to_put[q]) - 1
       ]_vars

\* Two producers were suspended; a get has released the one of the smaller
\* index and the other is still registered.
C15_Witness ==
    /\ last.op = "get" /\ last.outcome = "ok"
    /\ \E u \in Released(1) : \E r \in Registered(1) :
          /\ woken[u] = "notified"
          /\ call[u].index < r[1]
          /\ pc[r[2]] = "put_wait" /\ woken[r[2]] = "no"

\* C16 (stable admissibility): no step changes maxsize or lowers the cursor,
\* so an index inside the window (index - cursor < maxsize) stays inside it;
\* and a put(block=True, timeout=None) that returns from its wait, which
\* inserts without testing its slot again, has its index inside the window at
\* that moment.
C16_StableAdmissibility ==
    [][/\ \A q \in Queues :
            /\ maxsize'[q] = maxsize[q]
            /\ index_shift'[q] >= index_shift[q]
            /\ \A i \in Indices(q) :
                  (i - index_shift[q] < maxsize[q]) => (i - index_shift'[q] < maxsize'[q])
       /\ \A t \in Procs :
            (/\ pc[t] = "put_wait" /\ call[t].mode = "block"
             /\ PutResume(t)) =>
                /\ woken[t] = "notified"
                /\ call[t].index - index_shift[call[t].q] < maxsize[call[t].q]
                /\ last'.outcome = "ok"
                /\ \E k \in 1..Len(queue'[call[t].q]) :
                      queue'[call[t].q][k] = call[t].index
      ]_vars

\* A blocking put that was suspended has inserted its entry after the cursor
\* had moved on once more since the put was released.
C16_Witness ==
    /\ last.op = "put" /\ last.mode = "block" /\ last.outcome = "ok"
    /\ last.woke = "notified"
    /\ maxsize[1] > 0
    /\ last.index - index_shift[1] < maxsize[1] - 1
    /\ last.index \in Stored(1)

\* C17 (cursor progression): the cursor starts at start_index and is
\* start_index plus the number of gets that have returned an entry in every
\* reachable state; a step changes it only by adding 1, and exactly the steps
\* in which a get returns an entry do: puts, failed or not, and failed gets
\* leave it alone.
C17_CursorProgression ==
    /\ [](\A q \in Queues : index_shift[q] = start_index[q] + Len(delivered[q]))
    /\ [][\A q \in Queues :
            /\ index_shift'[q] \in {index_shift[q], index_shift[q] + 1}
            /\ (index_shift'[q] # index_shift[q]) =>
                  /\ last'.op = "get" /\ last'.outcome = "ok" /\ last'.q = q
                  /\ last'.item = index_shift[q]
            /\ \A t \in Procs :
                  /\ GetReturns(t, q) => index_shift'[q] = index_shift[q] + 1
                  /\ (pc[t] = "put_wait" /\ PutResume(t)) => index_shift' = index_shift
       ]_vars

\* Every entry has been delivered and a get has then raised Empty: the
\* cursor is start_index + NItems.
C17_Witness ==
    /\ index_shift[1] = start_index[1] + NItems
    /\ Len(delivered[1]) = NItems
    /\ last.op = "get" /\ last.outcome = "Empty"

\* C18 (storage lower bound): with every index put once at most and none
\* below start_index, every stored entry has index >= cursor in every
\* reachable state: the cursor never passes an entry that is still stored.
C18_StorageLowerBound ==
    \A q \in Queues : \A k \in 1..Len(queue[q]) : queue[q][k] >= index_shift[q]

\* After a delivery an entry above the cursor is stored while the cursor
\* entry has not been put yet.
C18_Witness ==
    /\ index_shift[1] > start_index[1]
    /\ Len(queue[1]) > 0
    /\ queue[1][1] > index_shift[1]
    /\ index_shift[1] \in Fresh(1)

\* C19 (registry invariant): with every index put once at most, every
\* registration in the registry has an index outside the window
\* (index - cursor >= maxsize) whenever the mutex is free, so a get makes one
\* registered producer admissible at most and leaves none registered; and a
\* timed put that finds its index outside the window after its wait finds
\* its own registration in the registry: list.index never raises.
C19_RegistryInadmissible ==
    /\ [](\A q \in Queues : \A r \in Registered(q) :
            r[1] - index_shift[q] >= maxsize[q])
    /\ [](last.outcome = "ValueError" => last.mode = "negative")
    /\ [][\A t \in Procs :
            LET q == call[t].q
                i == call[t].index
            IN
            (/\ pc[t] = "put_wait" /\ call[t].mode \in {"timed", "timed0"}
             /\ i - index_shift[q] >= maxsize[q]
             /\ PutResume(t)) =>
                /\ <<i, t>> \in Registered(q)
                /\ last'.outcome = "Full"
                /\ \A k \in 1..Len(waiting_to_put'[q]) : waiting_to_put'[q][k] # <<i, t>>
       ]_vars
    /\ [][\A q \in Queues :
            Cardinality({r \in Registered(q) :
                            r[1] - index_shift'[q] < maxsize[q]}) <= 1
       ]_vars

\* A get has released one producer; a timed put of a greater index, still
\* outside the window, has then found its registration and raised Full.
C19_Witness ==
    /\ last.op = "put" /\ last.mode = "timed" /\ last.outcome = "Full"
    /\ index_shift[1] > start_index[1]
    /\ \E u \in Released(1) : call[u].index < last.index /\ woken[u] = "notified"

\* C20 (occupancy bound): the size of the queue is the number of puts that
\* have inserted minus the number of gets that have returned an entry, and
\* with maxsize = m > 0 it is m at most in every reachable state.
C20_OccupancyBound ==
    \A q \in Queues :
        /\ qsize(q) = unfinished_tasks[q] - Len(delivered[q])
        /\ Cardinality(Stored(q)) = qsize(q)
        /\ maxsize[q] > 0 => qsize(q) <= maxsize[q]

\* After a delivery the bounded queue is full again while an index outside
\* the window is waiting or still to be put.
C20_Witness ==
    /\ maxsize[1] = MaxMaxsize
    /\ Len(queue[1]) = maxsize[1]
    /\ index_shift[1] > start_index[1]
    /\ unfinished_tasks[1] = Len(delivered[1]) + maxsize[1]

=============================================================================
